---- MODULE Spec2Model ----
(***************************************************************************)
(* DevInsight: the interactive controller (src/src/tui.rs), the ingestion  *)
(* thread (src/src/main.rs) and the storage rotator (src/src/storage.rs).  *)
(*                                                                         *)
(* Strings are sequences of one-character strings, so that to_lowercase()  *)
(* and contains() are computed and not assumed.  Store positions are       *)
(* 0-based as in the source: position i of the store is logs[i + 1].       *)
(***************************************************************************)
EXTENDS Integers, Sequences, FiniteSets, TLC

(***************************************************************************)
(* Bounds of the model.  CAP and EVICT stand for the literals 10000        *)
(* (tui.rs:182) and 1000 (tui.rs:184): add_log is modelled for any pair of *)
(* values and checked on a scaled instance, so that runs reach evictions.  *)
(***************************************************************************)
CAP == 3
EVICT == 2
MaxLines == 5
MaxQuery == 2

(* Program constants. *)
INITIAL_BATCH_SIZE == 50
MAX_WAIT_CYCLES == 20
PAGE_STEP == 10
WHEEL_STEP == 3

VARIABLES
  state,          \* Tui.state: the AppState record
  log_rx,         \* the mpsc channel of LogEntry, oldest first
  pc,             \* where the controller stands: warmup, drain, poll, done in
                  \* Tui::run; new, spawn, failed, exited around it
  collected,      \* Tui::run local
  no_logs_count,  \* Tui::run local
  stream,         \* the lines the device will write, as parsed entries
  sent,           \* number of lines the ingestion thread has sent so far
  accepted,       \* history: ids of the entries add_log appended, in order
  storage,        \* the LogStorage record
  disk,           \* the log directory: file name -> bytes in the file
  clock,          \* Local::now(), in whole seconds
  rx_alive,       \* whether the receiver of storage_tx still exists
  last,           \* what the last store_log call did and returned
  calls,          \* number of store_log calls so far
  clean,          \* history: the current file was empty when it was opened and
                  \* no store call since has met an error
  created,        \* history: the files this LogStorage has opened so far
  terminal        \* what the process holds of the terminal: raw mode, alternate
                  \* screen, mouse capture

tui_vars == <<state, log_rx, pc, collected, no_logs_count, stream, sent, accepted>>

storage_vars == <<storage, disk, clock, rx_alive, last, calls, clean, created>>

vars == <<state, log_rx, pc, collected, no_logs_count, stream, sent, accepted,
          storage, disk, clock, rx_alive, last, calls, clean, created, terminal>>

----------------------------------------------------------------------------
(* Helpers for Rust's usize and Vec operations. *)

SatSub(a, b) == IF a > b THEN a - b ELSE 0

Min(a, b) == IF a < b THEN a ELSE b

Last(s) == s[Len(s)]

Range(s) == {s[k] : k \in 1..Len(s)}

(* Vec::remove(pos), pos 0-based. *)
RemoveAt(s, pos) == [k \in 1..(Len(s) - 1) |-> IF k <= pos THEN s[k] ELSE s[k + 1]]

(* String::pop(): drop the last character, nothing on an empty string. *)
PopChar(s) == IF s = <<>> THEN s ELSE SubSeq(s, 1, Len(s) - 1)

----------------------------------------------------------------------------
(* Strings *)

UpperLetters == <<"A","B","C","D","E","F","G","H","I","J","K","L","M",
                  "N","O","P","Q","R","S","T","U","V","W","X","Y","Z">>
LowerLetters == <<"a","b","c","d","e","f","g","h","i","j","k","l","m",
                  "n","o","p","q","r","s","t","u","v","w","x","y","z">>

(* char lowercasing, as str::to_lowercase does on ASCII text *)
LowerChar(c) ==
  IF \E k \in 1..26 : UpperLetters[k] = c
  THEN LowerLetters[CHOOSE k \in 1..26 : UpperLetters[k] = c]
  ELSE c

to_lowercase(s) == [k \in 1..Len(s) |-> LowerChar(s[k])]

(* str::contains(pat): pat occurs in s as a contiguous run *)
contains(s, pat) ==
  \E k \in 0..(Len(s) - Len(pat)) : SubSeq(s, k + 1, k + Len(pat)) = pat

----------------------------------------------------------------------------
(* LogLevel *)

LogLevels == {"Error", "Warning", "Info", "Debug", "Verbose", "Unknown"}

as_str(level) ==
  CASE level = "Error"   -> <<"E","R","R","O","R">>
    [] level = "Warning" -> <<"W","A","R","N">>
    [] level = "Info"    -> <<"I","N","F","O">>
    [] level = "Debug"   -> <<"D","E","B","U","G">>
    [] level = "Verbose" -> <<"V","E","R","B","O","S","E">>
    [] level = "Unknown" -> <<"U","N","K","N","O","W","N">>

----------------------------------------------------------------------------
(* AppState *)

(* a fresh AppState whose level set also holds Unknown *)
AppState_new_with_unknown ==
  [ current_view    |-> "Logs",
    logs            |-> <<>>,
    filtered_logs   |-> <<>>,
    scroll          |-> 0,
    paused          |-> FALSE,
    search_query    |-> <<>>,
    search_mode     |-> FALSE,
    stats           |-> [error_count |-> 0, warning_count |-> 0, info_count |-> 0,
                         debug_count |-> 0, verbose_count |-> 0],
    level_filters   |-> <<"Error", "Warning", "Info", "Debug", "Verbose", "Unknown">>,
    tail_mode       |-> TRUE,
    notify_on_error |-> TRUE ]

AppState_new ==
  [ current_view    |-> "Logs",
    logs            |-> <<>>,
    filtered_logs   |-> <<>>,
    scroll          |-> 0,
    paused          |-> FALSE,
    search_query    |-> <<>>,
    search_mode     |-> FALSE,
    stats           |-> [error_count |-> 0, warning_count |-> 0, info_count |-> 0,
                         debug_count |-> 0, verbose_count |-> 0],
    level_filters   |-> <<"Error", "Warning", "Info", "Debug", "Verbose">>,
    tail_mode       |-> TRUE,
    notify_on_error |-> TRUE ]

(* the level set of a fresh AppState *)
InitialLevelFilters == AppState_new.level_filters

(* Vec<LogLevel>::contains *)
level_filters_contains(lf, level) == \E k \in 1..Len(lf) : lf[k] = level

(* the filter closure with a search term that is not lowercased *)
filter_pass_raw_term(st, log) ==
  LET level_match == level_filters_contains(st.level_filters, log.level)
      search_match ==
        IF st.search_query = <<>>
        THEN TRUE
        ELSE LET search_term == st.search_query
             IN \/ contains(to_lowercase(log.message), search_term)
                \/ contains(to_lowercase(log.tag), search_term)
                \/ contains(to_lowercase(as_str(log.level)), search_term)
  IN level_match /\ search_match

(* the closure of the filter() in update_filtered_logs, for one entry *)
filter_pass(st, log) ==
  LET level_match == level_filters_contains(st.level_filters, log.level)
      search_match ==
        IF st.search_query = <<>>
        THEN TRUE
        ELSE LET search_term == to_lowercase(st.search_query)
             IN \/ contains(to_lowercase(log.message), search_term)
                \/ contains(to_lowercase(log.tag), search_term)
                \/ contains(to_lowercase(as_str(log.level)), search_term)
  IN level_match /\ search_match

(* the recompute without the tail pin *)
update_filtered_logs_no_pin(st) ==
  LET positions == [k \in 1..Len(st.logs) |-> k - 1]
      filtered  == SelectSeq(positions, LAMBDA i : filter_pass(st, st.logs[i + 1]))
  IN [st EXCEPT !.filtered_logs = filtered]

update_filtered_logs(st) ==
  LET positions == [k \in 1..Len(st.logs) |-> k - 1]
      filtered  == SelectSeq(positions, LAMBDA i : filter_pass(st, st.logs[i + 1]))
  IN [st EXCEPT !.filtered_logs = filtered,
                !.scroll = IF st.tail_mode THEN SatSub(Len(filtered), 1) ELSE @]

(* an eviction that drops one entry short of the batch *)
pop_front_short(logs) == SubSeq(logs, Min(EVICT - 1, Len(logs)) + 1, Len(logs))

(* for _ in 0..EVICT { logs.pop_front(); }: pop_front on an empty deque is a no-op *)
pop_front_batch(logs) == SubSeq(logs, Min(EVICT, Len(logs)) + 1, Len(logs))

(* the statistics match with Unknown counted as Verbose *)
bump_stats_counts_unknown(stats, level) ==
  CASE level = "Error"   -> [stats EXCEPT !.error_count = @ + 1]
    [] level = "Warning" -> [stats EXCEPT !.warning_count = @ + 1]
    [] level = "Info"    -> [stats EXCEPT !.info_count = @ + 1]
    [] level = "Debug"   -> [stats EXCEPT !.debug_count = @ + 1]
    [] level = "Verbose" -> [stats EXCEPT !.verbose_count = @ + 1]
    [] level = "Unknown" -> [stats EXCEPT !.verbose_count = @ + 1]

bump_stats(stats, level) ==
  CASE level = "Error"   -> [stats EXCEPT !.error_count = @ + 1]
    [] level = "Warning" -> [stats EXCEPT !.warning_count = @ + 1]
    [] level = "Info"    -> [stats EXCEPT !.info_count = @ + 1]
    [] level = "Debug"   -> [stats EXCEPT !.debug_count = @ + 1]
    [] level = "Verbose" -> [stats EXCEPT !.verbose_count = @ + 1]
    [] level = "Unknown" -> stats

(* add_log with the eviction test off by one (len > CAP) *)
add_log_late_evict(st, entry) ==
  IF ~st.paused
  THEN LET kept == IF Len(st.logs) > CAP THEN pop_front_batch(st.logs) ELSE st.logs
       IN update_filtered_logs(
            [st EXCEPT !.logs = Append(kept, entry),
                       !.stats = bump_stats(st.stats, entry.level)])
  ELSE st

(* add_log that recomputes the index before it evicts and appends *)
add_log_stale_index(st, entry) ==
  IF ~st.paused
  THEN LET kept == IF Len(st.logs) >= CAP THEN pop_front_batch(st.logs) ELSE st.logs
       IN [update_filtered_logs(st) EXCEPT
             !.logs = Append(kept, entry),
             !.stats = bump_stats(st.stats, entry.level)]
  ELSE st

(* add_log that does not look at paused *)
add_log_ignore_paused(st, entry) ==
  LET kept == IF Len(st.logs) >= CAP THEN pop_front_batch(st.logs) ELSE st.logs
  IN update_filtered_logs(
       [st EXCEPT !.logs = Append(kept, entry),
                  !.stats = bump_stats(st.stats, entry.level)])

(* add_log that appends only while the Logs view is shown *)
add_log_in_logs_view_only(st, entry) ==
  IF ~st.paused /\ st.current_view = "Logs"
  THEN LET kept == IF Len(st.logs) >= CAP THEN pop_front_batch(st.logs) ELSE st.logs
       IN update_filtered_logs(
            [st EXCEPT !.logs = Append(kept, entry),
                       !.stats = bump_stats(st.stats, entry.level)])
  ELSE st

add_log(st, entry) ==
  IF ~st.paused
  THEN LET kept == IF Len(st.logs) >= CAP THEN pop_front_batch(st.logs) ELSE st.logs
       IN update_filtered_logs(
            [st EXCEPT !.logs = Append(kept, entry),
                       !.stats = bump_stats(st.stats, entry.level)])
  ELSE st

(* toggle_level that pushes the level whether it is enabled or not *)
toggle_level_always_push(st, level) ==
  update_filtered_logs([st EXCEPT !.level_filters = Append(st.level_filters, level)])

toggle_level(st, level) ==
  LET lf == st.level_filters
  IN update_filtered_logs(
       [st EXCEPT !.level_filters =
          IF level_filters_contains(lf, level)
          THEN RemoveAt(lf, (CHOOSE k \in 1..Len(lf) :
                               lf[k] = level /\ \A j \in 1..(k - 1) : lf[j] # level) - 1)
          ELSE Append(lf, level)])

(* The Normal-mode arms of the key match in Tui::run, except 'q' (break),
   which ends the loop and is taken in KeyEvent.  status_message and the
   clipboard are display-only and not part of the model, so 'y' and 'c'
   are not among the keys. *)
on_normal_key(st, key) ==
  LET max_scroll == SatSub(Len(st.filtered_logs), 1)
  IN CASE key = "1" -> [st EXCEPT !.current_view = "Logs"]
       [] key = "2" -> [st EXCEPT !.current_view = "Stats"]
       [] key = "3" -> [st EXCEPT !.current_view = "Storage"]
       [] key = "/" -> [st EXCEPT !.search_mode = TRUE]
       [] key = " " -> [st EXCEPT !.paused = ~st.paused]
       [] key = "t" -> [st EXCEPT !.tail_mode = ~st.tail_mode]
       [] key = "Up" ->
            IF st.scroll > 0
            THEN [st EXCEPT !.tail_mode = FALSE, !.scroll = SatSub(st.scroll, 1)]
            ELSE st
       [] key = "Down" ->
            IF st.scroll < max_scroll
            THEN [st EXCEPT !.scroll = st.scroll + 1,
                            !.tail_mode = IF st.scroll + 1 = max_scroll THEN TRUE ELSE @]
            ELSE st
       [] key \in {"End", "G"} -> [st EXCEPT !.scroll = max_scroll]
       [] key \in {"Home", "g"} -> [st EXCEPT !.scroll = 0]
       [] key = "e" -> toggle_level(st, "Error")
       [] key = "w" -> toggle_level(st, "Warning")
       [] key = "i" -> toggle_level(st, "Info")
       [] key = "d" -> toggle_level(st, "Debug")
       [] key = "v" -> toggle_level(st, "Verbose")
       [] key = "PageUp" ->
            [st EXCEPT !.tail_mode = FALSE, !.scroll = SatSub(st.scroll, PAGE_STEP)]
       [] key = "PageDown" ->
            LET s2 == Min(st.scroll + PAGE_STEP, max_scroll)
            IN [st EXCEPT !.scroll = s2,
                          !.tail_mode = IF s2 = max_scroll THEN TRUE ELSE @]
       [] key = "n" -> [st EXCEPT !.notify_on_error = ~st.notify_on_error]
       [] OTHER -> st

(* KeyCode::Char(c): the keys whose name is one character *)
IsChar(key) == Len(key) = 1

(* the Search-mode arms with a Char arm that forgets to recompute *)
on_search_key_no_recompute(st, key) ==
  CASE key = "Esc" ->
         update_filtered_logs([st EXCEPT !.search_mode = FALSE, !.search_query = <<>>])
    [] key = "Enter" ->
         update_filtered_logs([st EXCEPT !.search_mode = FALSE])
    [] key = "Backspace" ->
         IF st.search_query # <<>>
         THEN update_filtered_logs([st EXCEPT !.search_query = PopChar(st.search_query)])
         ELSE st
    [] IsChar(key) /\ key \notin {"Esc", "Enter", "Backspace"} ->
         [st EXCEPT !.search_query = Append(st.search_query, key)]
    [] OTHER -> st

(* the Search-mode arms with an Enter arm that clears the text as Esc does *)
on_search_key_enter_clears(st, key) ==
  CASE key \in {"Esc", "Enter"} ->
         update_filtered_logs([st EXCEPT !.search_mode = FALSE, !.search_query = <<>>])
    [] key = "Backspace" ->
         IF st.search_query # <<>>
         THEN update_filtered_logs([st EXCEPT !.search_query = PopChar(st.search_query)])
         ELSE st
    [] IsChar(key) /\ key \notin {"Esc", "Enter", "Backspace"} ->
         update_filtered_logs([st EXCEPT !.search_query = Append(st.search_query, key)])
    [] OTHER -> st

(* The Search-mode arms of the key match in Tui::run. *)
on_search_key(st, key) ==
  CASE key = "Esc" ->
         update_filtered_logs([st EXCEPT !.search_mode = FALSE, !.search_query = <<>>])
    [] key = "Enter" ->
         update_filtered_logs([st EXCEPT !.search_mode = FALSE])
    [] key = "Backspace" ->
         IF st.search_query # <<>>
         THEN update_filtered_logs([st EXCEPT !.search_query = PopChar(st.search_query)])
         ELSE st
    [] IsChar(key) /\ key \notin {"Esc", "Enter", "Backspace"} ->
         update_filtered_logs([st EXCEPT !.search_query = Append(st.search_query, key)])
    [] OTHER -> st

(* Event::Mouse *)
on_mouse(st, kind) ==
  LET max_scroll == SatSub(Len(st.filtered_logs), 1)
  IN CASE kind = "ScrollUp" ->
            IF st.scroll > 0
            THEN [st EXCEPT !.tail_mode = FALSE, !.scroll = SatSub(st.scroll, WHEEL_STEP)]
            ELSE st
       [] kind = "ScrollDown" ->
            IF st.scroll < max_scroll
            THEN LET s2 == Min(st.scroll + WHEEL_STEP, max_scroll)
                 IN [st EXCEPT !.scroll = s2,
                               !.tail_mode = IF s2 = max_scroll THEN TRUE ELSE @]
            ELSE st
       [] OTHER -> st

----------------------------------------------------------------------------
(* Inputs *)

(* the entries the ingestion thread parses out of the stream *)
EntryKinds ==
  << [level |-> "Error",   tag |-> <<"N","e","t">>, message |-> <<"o","k">>],
     [level |-> "Info",    tag |-> <<"u","i">>,     message |-> <<"E","k">>],
     [level |-> "Unknown", tag |-> <<"x">>,         message |-> <<"e">>] >>

(* the streams of the check: the three kinds in turn, from any of them *)
Streams ==
  { [n \in 1..MaxLines |-> EntryKinds[((n + o) % Len(EntryKinds)) + 1]] :
      o \in 0..(Len(EntryKinds) - 1) }

NormalKeys == {"q", " ", "t", "/", "e", "Up", "Down", "PageUp", "PageDown", "End", "Home"}
SearchKeys == {"Esc", "Enter", "Backspace", "e", "K"}
MouseKinds == {"ScrollUp", "ScrollDown"}

----------------------------------------------------------------------------
(* a channel that hands over the newest entry first *)
ProducerSend_newest_first ==
  /\ pc \in {"warmup", "drain", "poll"}
  /\ sent < MaxLines
  /\ LET entry == stream[sent + 1]
     IN log_rx' = <<[level |-> entry.level, tag |-> entry.tag,
                     message |-> entry.message, id |-> sent + 1]>> \o log_rx
  /\ sent' = sent + 1
  /\ UNCHANGED <<state, pc, collected, no_logs_count, stream, accepted>>
  /\ UNCHANGED <<storage_vars, terminal>>

(* The ingestion thread of run_interactive_mode: one line parsed and sent.
   id is the line's number in the stream, kept with the entry to tell the
   entries apart. *)
ProducerSend ==
  /\ pc \in {"warmup", "drain", "poll"}
  /\ sent < MaxLines
  /\ LET entry == stream[sent + 1]
     IN log_rx' = Append(log_rx, [level |-> entry.level, tag |-> entry.tag,
                                  message |-> entry.message, id |-> sent + 1])
  /\ sent' = sent + 1
  /\ UNCHANGED <<state, pc, collected, no_logs_count, stream, accepted>>
  /\ UNCHANGED <<storage_vars, terminal>>

(* what add_log(entry) appends to the history of appended entries; the
   entries of an endless stream carry id 0 and are left out of the history *)
Accept(st, entry) ==
  IF ~st.paused /\ entry.id > 0 THEN Append(accepted, entry.id) ELSE accepted

(* the warm-up test letting one entry more through *)
WarmupCond_one_more == collected <= INITIAL_BATCH_SIZE /\ no_logs_count < MAX_WAIT_CYCLES

WarmupCond == collected < INITIAL_BATCH_SIZE /\ no_logs_count < MAX_WAIT_CYCLES

(* one iteration of the warm-up loop whose try_recv returns an entry *)
WarmupRecv ==
  /\ pc = "warmup" /\ WarmupCond
  /\ log_rx # <<>>
  /\ state' = add_log(state, Head(log_rx))
  /\ accepted' = Accept(state, Head(log_rx))
  /\ log_rx' = Tail(log_rx)
  /\ collected' = collected + 1
  /\ no_logs_count' = 0
  /\ UNCHANGED <<pc, stream, sent>>
  /\ UNCHANGED <<storage_vars, terminal>>

(* one iteration of the warm-up loop whose try_recv finds the channel empty *)
WarmupEmpty ==
  /\ pc = "warmup" /\ WarmupCond
  /\ log_rx = <<>>
  /\ no_logs_count' = no_logs_count + 1
  /\ UNCHANGED <<state, log_rx, pc, collected, stream, sent, accepted>>
  /\ UNCHANGED <<storage_vars, terminal>>

(* leaving the warm-up loop: the forced update and scroll position *)
WarmupDone ==
  /\ pc = "warmup" /\ ~WarmupCond
  /\ LET st == update_filtered_logs(state)
     IN state' = [st EXCEPT !.scroll = SatSub(Len(st.filtered_logs), 1)]
  /\ pc' = "drain"
  /\ UNCHANGED <<log_rx, collected, no_logs_count, stream, sent, accepted>>
  /\ UNCHANGED <<storage_vars, terminal>>

(* one iteration of `while let Ok(log) = self.log_rx.try_recv()` *)
DrainRecv ==
  /\ pc = "drain"
  /\ log_rx # <<>>
  /\ LET st == add_log(state, Head(log_rx))
     IN state' = IF st.tail_mode
                 THEN [st EXCEPT !.scroll = SatSub(Len(st.filtered_logs), 1)]
                 ELSE st
  /\ accepted' = Accept(state, Head(log_rx))
  /\ log_rx' = Tail(log_rx)
  /\ UNCHANGED <<pc, collected, no_logs_count, stream, sent>>
  /\ UNCHANGED <<storage_vars, terminal>>

(* a drain loop that takes a channel without senders for an error and ends
   the run *)
DrainDone_disconnect_ends ==
  /\ pc = "drain"
  /\ log_rx = <<>>
  /\ pc' = IF sent = Len(stream) THEN "done" ELSE "poll"
  /\ UNCHANGED <<state, log_rx, collected, no_logs_count, stream, sent, accepted>>
  /\ UNCHANGED <<storage_vars, terminal>>

(* try_recv finds the channel empty: the drain loop ends, the frame is drawn
   and the loop stands at event::poll *)
DrainDone ==
  /\ pc = "drain"
  /\ log_rx = <<>>
  /\ pc' = "poll"
  /\ UNCHANGED <<state, log_rx, collected, no_logs_count, stream, sent, accepted>>
  /\ UNCHANGED <<storage_vars, terminal>>

(* event::poll times out with no event *)
PollTimeout ==
  /\ pc = "poll"
  /\ pc' = "drain"
  /\ UNCHANGED <<state, log_rx, collected, no_logs_count, stream, sent, accepted>>
  /\ UNCHANGED <<storage_vars, terminal>>

(* Event::Key with a q that ends the loop in either mode *)
KeyPress_q_any_mode(normal, search) ==
  /\ pc = "poll"
  /\ \E key \in (IF state.search_mode THEN search ELSE normal) :
       /\ state.search_mode /\ IsChar(key) => Len(state.search_query) < MaxQuery
       /\ IF key = "q"
          THEN pc' = "done" /\ UNCHANGED state
          ELSE /\ state' = IF state.search_mode
                           THEN on_search_key(state, key)
                           ELSE on_normal_key(state, key)
               /\ pc' = "drain"
  /\ UNCHANGED <<log_rx, collected, no_logs_count, stream, sent, accepted>>
  /\ UNCHANGED <<storage_vars, terminal>>

(* Event::Key, the key drawn from `normal` in Normal mode and from `search`
   in Search mode *)
KeyPress(normal, search) ==
  /\ pc = "poll"
  /\ \E key \in (IF state.search_mode THEN search ELSE normal) :
       /\ state.search_mode /\ IsChar(key) => Len(state.search_query) < MaxQuery
       /\ IF ~state.search_mode /\ key = "q"
          THEN pc' = "done" /\ UNCHANGED state
          ELSE /\ state' = IF state.search_mode
                           THEN on_search_key(state, key)
                           ELSE on_normal_key(state, key)
               /\ pc' = "drain"
  /\ UNCHANGED <<log_rx, collected, no_logs_count, stream, sent, accepted>>
  /\ UNCHANGED <<storage_vars, terminal>>

KeyEvent == KeyPress(NormalKeys, SearchKeys)

(* Event::Mouse *)
MouseEvent ==
  /\ pc = "poll"
  /\ \E kind \in MouseKinds : state' = on_mouse(state, kind)
  /\ pc' = "drain"
  /\ UNCHANGED <<log_rx, collected, no_logs_count, stream, sent, accepted>>
  /\ UNCHANGED <<storage_vars, terminal>>

(* nothing of the terminal is held *)
TerminalFree == [raw_mode |-> FALSE, alternate_screen |-> FALSE, mouse_capture |-> FALSE]

(* the terminal as a successful Tui::new leaves it *)
TerminalHeld == [raw_mode |-> TRUE, alternate_screen |-> TRUE, mouse_capture |-> TRUE]

(* no rotator: run_interactive_mode constructs none *)
StorageIdle ==
  /\ storage = [current_file |-> 0, max_size |-> 0, current_size |-> 0, storage_tx |-> "None"]
  /\ disk = <<>>
  /\ clock = 0
  /\ rx_alive = FALSE
  /\ last = [op |-> "none"]
  /\ calls = 0
  /\ clean = FALSE
  /\ created = {}

Init ==
  /\ state = AppState_new
  /\ log_rx = <<>>
  /\ pc = "warmup"
  /\ collected = 0
  /\ no_logs_count = 0
  /\ stream \in Streams
  /\ sent = 0
  /\ accepted = <<>>
  /\ StorageIdle
  /\ terminal = TerminalHeld

Next ==
  \/ ProducerSend
  \/ WarmupRecv
  \/ WarmupEmpty
  \/ WarmupDone
  \/ DrainRecv
  \/ DrainDone
  \/ PollTimeout
  \/ KeyEvent
  \/ MouseEvent

Spec == Init /\ [][Next]_vars

----------------------------------------------------------------------------
(* The channel between the two threads: the same loop with the keys that
   matter to ingestion (pause, tail, quit), and a controller thread that is
   scheduled as long as it has a step to take.  Nothing is assumed of the
   ingestion thread or of the user. *)

ChanKeys == {"q", " ", "t"}

ChanKeyEvent == KeyPress(ChanKeys, {"Esc"})

ChanControllerStep ==
  \/ WarmupRecv
  \/ WarmupEmpty
  \/ WarmupDone
  \/ DrainRecv
  \/ DrainDone
  \/ PollTimeout
  \/ ChanKeyEvent

NextChan ==
  \/ ProducerSend
  \/ ChanControllerStep

SpecChan == Init /\ [][NextChan]_vars /\ WF_vars(ChanControllerStep)

(* The same loop fed by a device that never stops writing: the thread sends
   whenever fewer than MaxQueue entries are waiting. *)

MaxQueue == 2

FloodEntry == [level |-> "Unknown", tag |-> <<"x">>, message |-> <<"e">>, id |-> 0]

ProducerFlood ==
  /\ pc # "done"
  /\ Len(log_rx) < MaxQueue
  /\ log_rx' = Append(log_rx, FloodEntry)
  /\ UNCHANGED <<state, pc, collected, no_logs_count, stream, sent, accepted>>
  /\ UNCHANGED <<storage_vars, terminal>>

InitLive ==
  /\ state = AppState_new
  /\ log_rx = <<>>
  /\ pc = "warmup"
  /\ collected = 0
  /\ no_logs_count = 0
  /\ stream = <<>>
  /\ sent = 0
  /\ accepted = <<>>
  /\ StorageIdle
  /\ terminal = TerminalHeld

NextLive ==
  \/ ProducerFlood
  \/ ChanControllerStep

SpecLive == InitLive /\ [][NextLive]_vars /\ WF_vars(ChanControllerStep)

(* The same loop with the five level keys, fed by a stream that begins with
   an entry of unknown level. *)

LevelKeys == {"e", "w", "i", "d", "v"}

(* the level each key toggles *)
LevelOfKey(key) ==
  CASE key = "e" -> "Error"
    [] key = "w" -> "Warning"
    [] key = "i" -> "Info"
    [] key = "d" -> "Debug"
    [] key = "v" -> "Verbose"

LevelKeyEvent == KeyPress(LevelKeys, {"Esc"})

InitToggle ==
  /\ state = AppState_new
  /\ log_rx = <<>>
  /\ pc = "warmup"
  /\ collected = 0
  /\ no_logs_count = 0
  /\ stream \in {s \in Streams : s[1].level = "Unknown"}
  /\ sent = 0
  /\ accepted = <<>>
  /\ StorageIdle
  /\ terminal = TerminalHeld

NextToggle ==
  \/ ProducerSend
  \/ WarmupRecv
  \/ WarmupEmpty
  \/ WarmupDone
  \/ DrainRecv
  \/ DrainDone
  \/ PollTimeout
  \/ LevelKeyEvent

SpecToggle == InitToggle /\ [][NextToggle]_vars

(* The same loop with the keys that have a meaning of their own in Normal
   mode typed in Search mode as well. *)

TypingNormalKeys == {"/", "q", " ", "t", "2"}

TypingSearchKeys == {"q", " ", "Backspace", "Esc"}

TypingKeyEvent == KeyPress(TypingNormalKeys, TypingSearchKeys)

NextTyping ==
  \/ ProducerSend
  \/ WarmupRecv
  \/ WarmupEmpty
  \/ WarmupDone
  \/ DrainRecv
  \/ DrainDone
  \/ PollTimeout
  \/ TypingKeyEvent

SpecTyping == InitToggle /\ [][NextTyping]_vars

(* The same loop with the view keys, pause, search and scrolling. *)

ViewNormalKeys == {"1", "2", "3", " ", "/", "Up", "Down"}

ViewSearchKeys == {"Esc", "e"}

ViewKeyEvent == KeyPress(ViewNormalKeys, ViewSearchKeys)

NextView ==
  \/ ProducerSend
  \/ WarmupRecv
  \/ WarmupEmpty
  \/ WarmupDone
  \/ DrainRecv
  \/ DrainDone
  \/ PollTimeout
  \/ ViewKeyEvent
  \/ MouseEvent

SpecView == InitToggle /\ [][NextView]_vars

----------------------------------------------------------------------------
(* update_filtered_logs as a function of store, level set and search text:
   the inputs are drawn from the sets below and the recompute is applied. *)

MaxStore == 3

FilterKinds ==
  { [level |-> "Error",   tag |-> <<"N","e","t">>, message |-> <<"o","k">>],
    [level |-> "Warning", tag |-> <<"K">>,         message |-> <<"n","o">>],
    [level |-> "Info",    tag |-> <<"u","i">>,     message |-> <<"E","k">>],
    [level |-> "Debug",   tag |-> <<"d","b">>,     message |-> <<"k","e">>],
    [level |-> "Unknown", tag |-> <<"x">>,         message |-> <<"e">>] }

(* 3 Error and 5 non-Error entries *)
ScenarioStore ==
  LET err == [level |-> "Error", tag |-> <<"N","e","t">>, message |-> <<"o","k">>]
      inf == [level |-> "Info",  tag |-> <<"u","i">>,     message |-> <<"E","k">>]
      dbg == [level |-> "Debug", tag |-> <<"d","b">>,     message |-> <<"k","e">>]
  IN <<inf, err, dbg, dbg, err, inf, inf, err>>

FilterStores ==
  UNION {[1..n -> FilterKinds] : n \in 0..MaxStore} \cup {ScenarioStore}

(* the level sets the keys e/w/i/d/v can leave, in the order of AppState::new,
   and one in toggled order *)
FilterLevelVecs ==
  { SelectSeq(InitialLevelFilters, LAMBDA l : l \in S) :
      S \in SUBSET {"Error", "Warning", "Info", "Debug", "Verbose"} }
  \cup { <<"Info", "Verbose", "Error">> }

FilterQueries == UNION {[1..n -> {"e", "K"}] : n \in 0..MaxQuery}

InitFilter ==
  /\ \E logs \in FilterStores, lf \in FilterLevelVecs, q \in FilterQueries, tail \in BOOLEAN :
       state = [AppState_new EXCEPT !.logs = logs, !.level_filters = lf,
                                    !.search_query = q, !.tail_mode = tail]
  /\ log_rx = <<>>
  /\ pc = "recompute"
  /\ collected = 0
  /\ no_logs_count = 0
  /\ stream = <<>>
  /\ sent = 0
  /\ accepted = <<>>
  /\ StorageIdle
  /\ terminal = TerminalHeld

Recompute ==
  /\ pc = "recompute"
  /\ state' = update_filtered_logs(state)
  /\ pc' = "recomputed"
  /\ UNCHANGED <<log_rx, collected, no_logs_count, stream, sent, accepted>>
  /\ UNCHANGED <<storage_vars, terminal>>

NextFilter == Recompute

SpecFilter == InitFilter /\ [][NextFilter]_vars

----------------------------------------------------------------------------
(* parse_log_entry (main.rs): what the ingestion thread makes of one raw
   line.  The line is a sequence of characters; stream holds the raw line and
   the parsed entry is what the thread sends on the channel. *)

MaxFrags == 3

(* char::is_whitespace, for the characters of the lines below *)
IsWhitespace(c) == c \in {" ", "\t"}

(* log.splitn(2, ':'): the text before the first ':' and the text after it,
   or the whole line when it has no ':' *)
splitn2(log) ==
  IF \E k \in 1..Len(log) : log[k] = ":"
  THEN LET i == CHOOSE k \in 1..Len(log) :
                  log[k] = ":" /\ \A j \in 1..(k - 1) : log[j] # ":"
       IN <<SubSeq(log, 1, i - 1), SubSeq(log, i + 1, Len(log))>>
  ELSE <<log>>

(* str::trim *)
trim(s) ==
  LET inked == {k \in 1..Len(s) : ~IsWhitespace(s[k])}
  IN IF inked = {} THEN <<>>
     ELSE SubSeq(s, CHOOSE a \in inked : \A k \in inked : a <= k,
                    CHOOSE b \in inked : \A k \in inked : k <= b)

(* str::split_whitespace: the maximal runs of non-whitespace, in order *)
RECURSIVE split_whitespace(_)
split_whitespace(s) ==
  LET inked == {k \in 1..Len(s) : ~IsWhitespace(s[k])}
  IN IF inked = {} THEN <<>>
     ELSE LET a == CHOOSE x \in inked : \A k \in inked : x <= k
              b == CHOOSE x \in a..Len(s) :
                     /\ \A k \in a..x : k \in inked
                     /\ (x = Len(s) \/ IsWhitespace(s[x + 1]))
          IN <<SubSeq(s, a, b)>> \o split_whitespace(SubSeq(s, b + 1, Len(s)))

(* chrono::Local::now().format("%m-%d %H:%M:%S") *)
LocalNow == <<"n", "o", "w">>

UNKNOWN == <<"U", "N", "K", "N", "O", "W", "N">>

(* the level chain with the Warning test ahead of the Error test *)
parse_level_warning_first(log) ==
  IF contains(log, <<" ", "W", " ">>) \/ contains(log, <<"W", "a", "r", "n", "i", "n", "g">>)
  THEN "Warning"
  ELSE IF contains(log, <<" ", "E", " ">>) \/ contains(log, <<"E", "r", "r", "o", "r">>)
  THEN "Error"
  ELSE IF contains(log, <<" ", "I", " ">>) \/ contains(log, <<"I", "n", "f", "o">>)
  THEN "Info"
  ELSE IF contains(log, <<" ", "D", " ">>) \/ contains(log, <<"D", "e", "b", "u", "g">>)
  THEN "Debug"
  ELSE IF contains(log, <<" ", "V", " ">>) \/ contains(log, <<"V", "e", "r", "b", "o", "s", "e">>)
  THEN "Verbose"
  ELSE "Unknown"

(* the if / else-if chain that picks the level *)
parse_level(log) ==
  IF contains(log, <<" ", "E", " ">>) \/ contains(log, <<"E", "r", "r", "o", "r">>)
  THEN "Error"
  ELSE IF contains(log, <<" ", "W", " ">>) \/ contains(log, <<"W", "a", "r", "n", "i", "n", "g">>)
  THEN "Warning"
  ELSE IF contains(log, <<" ", "I", " ">>) \/ contains(log, <<"I", "n", "f", "o">>)
  THEN "Info"
  ELSE IF contains(log, <<" ", "D", " ">>) \/ contains(log, <<"D", "e", "b", "u", "g">>)
  THEN "Debug"
  ELSE IF contains(log, <<" ", "V", " ">>) \/ contains(log, <<"V", "e", "r", "b", "o", "s", "e">>)
  THEN "Verbose"
  ELSE "Unknown"

parse_log_entry(log) ==
  LET parts == splitn2(log)
      message == IF Len(parts) >= 2 THEN trim(parts[2]) ELSE log
      header_parts == split_whitespace(parts[1])
      timestamp == IF Len(header_parts) >= 2
                   THEN header_parts[1] \o <<" ">> \o header_parts[2]
                   ELSE LocalNow
      \* header_parts.iter().rev().take(2).last()
      tag == IF Len(header_parts) = 0 THEN UNKNOWN
             ELSE header_parts[Len(header_parts) - Min(2, Len(header_parts)) + 1]
  IN [level |-> parse_level(log), timestamp |-> timestamp, tag |-> tag,
      message |-> message]

(* "03-21 10:23:45.678  1234  5678 E MyTag: Something broke" *)
ThreadtimeLine ==
  <<"0", "3", "-", "2", "1", " ", "1", "0", ":", "2", "3", ":", "4", "5", ".", "6", "7", "8", " ", " ", "1", "2", "3", "4", " ", " ", "5", "6", "7", "8", " ", "E", " ", "M", "y", "T", "a", "g", ":", " ", "S", "o", "m", "e", "t", "h", "i", "n", "g", " ", "b", "r", "o", "k", "e">>

(* the pieces the raw lines of the check are made of *)
Fragments ==
  { <<"a">>,
    <<" ", "b">>,
    <<" ">>,
    <<":">>,
    <<" ", "E", " ">>,
    <<" ", "W", " ">>,
    <<" ", "I", " ">>,
    <<" ", "D", " ">>,
    <<" ", "V", " ">>,
    <<"E", "r", "r", "o", "r">>,
    <<"W", "a", "r", "n", "i", "n", "g">>,
    <<"I", "n", "f", "o">>,
    <<"D", "e", "b", "u", "g">>,
    <<"V", "e", "r", "b", "o", "s", "e">> }

RECURSIVE LinesOf(_)
LinesOf(n) ==
  IF n = 0 THEN {<<>>}
  ELSE LET shorter == LinesOf(n - 1)
       IN shorter \cup {l \o f : l \in shorter, f \in Fragments}

RawLines == LinesOf(MaxFrags) \cup {ThreadtimeLine}

InitParse ==
  /\ state = AppState_new
  /\ log_rx = <<>>
  /\ pc = "parse"
  /\ collected = 0
  /\ no_logs_count = 0
  /\ stream \in {<<l>> : l \in RawLines}
  /\ sent = 0
  /\ accepted = <<>>
  /\ StorageIdle
  /\ terminal = TerminalFree

(* the body of `for line in reader.lines()`: parse the line, send the entry *)
ParseAndSend ==
  /\ pc = "parse"
  /\ log_rx' = Append(log_rx, parse_log_entry(stream[sent + 1]))
  /\ sent' = sent + 1
  /\ pc' = "parsed"
  /\ UNCHANGED <<state, collected, no_logs_count, stream, accepted>>
  /\ UNCHANGED <<storage_vars, terminal>>

NextParse == ParseAndSend

SpecParse == InitParse /\ [][NextParse]_vars

----------------------------------------------------------------------------
(* LogStorage (storage.rs).  A file is named after the second in which its
   name was generated, so a file name is modelled as that second.  One
   store_log call is one step; the clock moves between calls.  Every
   filesystem call that can return an error is given its outcome as input. *)

MaxCalls == 3
MaxClock == 1

(* max_size, in MB *)
MaxSizes == {0, 1, 2}

(* log_json.len() of the record stored *)
RecordSizes == {400000, 524287, 524288, 1048576}

(* The filesystem call of one store_log call that returns an error, if any:
   every error ends the call, so a call meets at most one.
     write_record    write_all(log_json) fails, after `partial` bytes
     write_newline   write_all(b"\n") fails
     open            OpenOptions::open fails in rotate_log
     scan_in_rotate  read_dir fails in the send_storage_update of rotate_log
     scan            read_dir fails in the send_storage_update ending store_log
   A fault at a call that is not reached does nothing. *)
Faults == {"none", "write_record", "write_newline", "open", "scan_in_rotate", "scan"}

IoOutcomes ==
  { [fault |-> f, partial |-> 0] : f \in Faults } \cup
  { [fault |-> "write_record", partial |-> 1] }

RECURSIVE SumOver(_, _)
SumOver(f, S) ==
  IF S = {} THEN 0
  ELSE LET x == CHOOSE y \in S : TRUE IN f[x] + SumOver(f, S \ {x})

get_directory_size(dsk) == SumOver(dsk, DOMAIN dsk)

count_log_files(dsk) == Cardinality(DOMAIN dsk)

(* logcat_%Y%m%d_%H%M%S.jsonl: one name per second *)
generate_filename(now) == now

(* send_storage_update whose send error is returned to the caller *)
send_storage_update_strict(st, dsk, now, scan_fails, alive) ==
  IF st.storage_tx = "Some"
  THEN IF scan_fails
       THEN [result |-> "Err", updates |-> <<>>, delivered |-> <<>>]
       ELSE LET update == [current_file |-> generate_filename(now),
                           total_size   |-> get_directory_size(dsk),
                           file_count   |-> count_log_files(dsk)]
            IN [result    |-> IF alive THEN "Ok" ELSE "Err",
                updates   |-> <<update>>,
                delivered |-> IF alive THEN <<update>> ELSE <<>>]
  ELSE [result |-> "Ok", updates |-> <<>>, delivered |-> <<>>]

(* the snapshot is built from the clock, the directory size and the file
   count; `updates` are the snapshots handed to tx.send, `delivered` those
   that reach a receiver: tx.send(update).ok() drops the error of a send to
   a receiver that is gone *)
send_storage_update(st, dsk, now, scan_fails, alive) ==
  IF st.storage_tx = "Some"
  THEN IF scan_fails
       THEN [result |-> "Err", updates |-> <<>>, delivered |-> <<>>]
       ELSE LET update == [current_file |-> generate_filename(now),
                           total_size   |-> get_directory_size(dsk),
                           file_count   |-> count_log_files(dsk)]
            IN [result    |-> "Ok",
                updates   |-> <<update>>,
                delivered |-> IF alive THEN <<update>> ELSE <<>>]
  ELSE [result |-> "Ok", updates |-> <<>>, delivered |-> <<>>]

(* OpenOptions::new().create(true).append(true).open(path) *)
open_append(dsk, name) ==
  IF name \in DOMAIN dsk THEN dsk ELSE dsk @@ (name :> 0)

(* no file closed, no file opened *)
NoFile == [file |-> -1, size |-> 0]

(* rotate_log; `closed` is the file it replaces with its size on disk,
   `opened` the file it opens with the size found there *)
rotate_log(st, dsk, now, io, alive) ==
  IF io.fault = "open"
  THEN [storage |-> st, disk |-> dsk, result |-> "Err", updates |-> <<>>,
        delivered |-> <<>>, rotations |-> 0, closed |-> NoFile, opened |-> NoFile]
  ELSE LET new_file_path == generate_filename(now)
           dsk2 == open_append(dsk, new_file_path)
           st2  == [st EXCEPT !.current_file = new_file_path, !.current_size = 0]
           sent_update == send_storage_update(st2, dsk2, now, io.fault = "scan_in_rotate", alive)
       IN [storage |-> st2, disk |-> dsk2, result |-> sent_update.result,
           updates |-> sent_update.updates, delivered |-> sent_update.delivered,
           rotations |-> 1,
           closed |-> [file |-> st.current_file, size |-> dsk[st.current_file]],
           opened |-> [file |-> new_file_path, size |-> dsk2[new_file_path]]]

(* store_log with a rotation test that needs the counter above the threshold *)
store_log_above_only(st, dsk, now, len, io, alive) ==
  CASE io.fault = "write_record" ->
         [storage |-> st, disk |-> [dsk EXCEPT ![st.current_file] = @ + io.partial],
          result |-> "Err", updates |-> <<>>, delivered |-> <<>>, rotations |-> 0,
          closed |-> NoFile, opened |-> NoFile, counted |-> FALSE]
    [] io.fault = "write_newline" ->
         [storage |-> st, disk |-> [dsk EXCEPT ![st.current_file] = @ + len],
          result |-> "Err", updates |-> <<>>, delivered |-> <<>>, rotations |-> 0,
          closed |-> NoFile, opened |-> NoFile, counted |-> FALSE]
    [] OTHER ->
         LET dsk1 == [dsk EXCEPT ![st.current_file] = @ + len + 1]
             st1  == [st EXCEPT !.current_size = @ + len]
         IN IF st1.current_size > st1.max_size * 1024 * 1024
            THEN LET r == rotate_log(st1, dsk1, now, io, alive)
                 IN IF r.result = "Err"
                    THEN r @@ [counted |-> TRUE]
                    ELSE LET u == send_storage_update(r.storage, r.disk, now, io.fault = "scan", alive)
                         IN [storage |-> r.storage, disk |-> r.disk, result |-> u.result,
                             updates |-> r.updates \o u.updates,
                             delivered |-> r.delivered \o u.delivered,
                             rotations |-> r.rotations,
                             closed |-> r.closed, opened |-> r.opened, counted |-> TRUE]
            ELSE LET u == send_storage_update(st1, dsk1, now, io.fault = "scan", alive)
                 IN [storage |-> st1, disk |-> dsk1, result |-> u.result,
                     updates |-> u.updates, delivered |-> u.delivered, rotations |-> 0,
                     closed |-> NoFile, opened |-> NoFile, counted |-> TRUE]

(* store_log: what it leaves and returns; `counted` tells whether the record
   was added to current_size, `rotations` how many times rotate_log replaced
   the file and reset the counter *)
store_log(st, dsk, now, len, io, alive) ==
  CASE io.fault = "write_record" ->
         [storage |-> st, disk |-> [dsk EXCEPT ![st.current_file] = @ + io.partial],
          result |-> "Err", updates |-> <<>>, delivered |-> <<>>, rotations |-> 0,
          closed |-> NoFile, opened |-> NoFile, counted |-> FALSE]
    [] io.fault = "write_newline" ->
         [storage |-> st, disk |-> [dsk EXCEPT ![st.current_file] = @ + len],
          result |-> "Err", updates |-> <<>>, delivered |-> <<>>, rotations |-> 0,
          closed |-> NoFile, opened |-> NoFile, counted |-> FALSE]
    [] OTHER ->
         LET dsk1 == [dsk EXCEPT ![st.current_file] = @ + len + 1]
             st1  == [st EXCEPT !.current_size = @ + len]
         IN IF st1.current_size >= st1.max_size * 1024 * 1024
            THEN LET r == rotate_log(st1, dsk1, now, io, alive)
                 IN IF r.result = "Err"
                    THEN r @@ [counted |-> TRUE]
                    ELSE LET u == send_storage_update(r.storage, r.disk, now, io.fault = "scan", alive)
                         IN [storage |-> r.storage, disk |-> r.disk, result |-> u.result,
                             updates |-> r.updates \o u.updates,
                             delivered |-> r.delivered \o u.delivered,
                             rotations |-> r.rotations,
                             closed |-> r.closed, opened |-> r.opened, counted |-> TRUE]
            ELSE LET u == send_storage_update(st1, dsk1, now, io.fault = "scan", alive)
                 IN [storage |-> st1, disk |-> dsk1, result |-> u.result,
                     updates |-> u.updates, delivered |-> u.delivered, rotations |-> 0,
                     closed |-> NoFile, opened |-> NoFile, counted |-> TRUE]

(* the state LogStorage::new leaves in an empty directory *)
InitStorage ==
  /\ state = AppState_new
  /\ log_rx = <<>>
  /\ pc = "storage"
  /\ collected = 0
  /\ no_logs_count = 0
  /\ stream = <<>>
  /\ sent = 0
  /\ accepted = <<>>
  /\ \E m \in MaxSizes, tx \in {"Some", "None"} :
       storage = [current_file |-> generate_filename(0), max_size |-> m,
                  current_size |-> 0, storage_tx |-> tx]
  /\ disk = (generate_filename(0) :> 0)
  /\ clock = 0
  /\ rx_alive = TRUE
  /\ last = [op |-> "none"]
  /\ calls = 0
  /\ clean = TRUE
  /\ created = {generate_filename(0)}
  /\ terminal = TerminalFree

StoreLog ==
  /\ calls < MaxCalls
  /\ \E len \in RecordSizes, io \in IoOutcomes :
       LET r == store_log(storage, disk, clock, len, io, rx_alive)
       IN /\ storage' = r.storage
          /\ disk' = r.disk
          /\ last' = [op |-> "store_log", len |-> len, io |-> io, result |-> r.result,
                      rotations |-> r.rotations, counted |-> r.counted,
                      updates |-> r.updates, delivered |-> r.delivered,
                      closed |-> r.closed, opened |-> r.opened]
          /\ clean' = IF r.rotations = 1
                       THEN r.opened.size = 0 /\ io.fault = "none"
                       ELSE clean /\ io.fault = "none"
          /\ created' = IF r.rotations = 1 THEN created \cup {r.opened.file} ELSE created
  /\ calls' = calls + 1
  /\ UNCHANGED <<clock, rx_alive>>
  /\ UNCHANGED <<tui_vars, terminal>>

(* a second passes *)
Tick ==
  /\ clock < MaxClock
  /\ clock' = clock + 1
  /\ UNCHANGED <<storage, disk, rx_alive, last, calls, clean, created>>
  /\ UNCHANGED <<tui_vars, terminal>>

(* the receiving end of the status channel is dropped *)
DropReceiver ==
  /\ rx_alive
  /\ rx_alive' = FALSE
  /\ UNCHANGED <<storage, disk, clock, last, calls, clean, created>>
  /\ UNCHANGED <<tui_vars, terminal>>

NextStorage ==
  \/ StoreLog
  \/ Tick
  \/ DropReceiver

SpecStorage == InitStorage /\ [][NextStorage]_vars

----------------------------------------------------------------------------
(* query_logs: the directory holds files of lines; a line is a serialized
   record with its timestamp, text that does not deserialize, or bytes that
   cannot be read as a line.  The directory, the order in which read_dir
   lists it, the time range and the outcome of the filesystem calls are
   drawn from the sets below. *)

MaxFileLines == 2

Times == {0, 1, 2}

QueryFiles == {0, 1}

LineKinds ==
  {[kind |-> "record", timestamp |-> t] : t \in Times}
    \cup {[kind |-> "malformed", timestamp |-> 0], [kind |-> "unreadable", timestamp |-> 0]}

FileContents == UNION {[1..n -> LineKinds] : n \in 0..MaxFileLines}

Directories == UNION {[F -> FileContents] : F \in SUBSET QueryFiles}

(* the orders in which read_dir may list the entries *)
ReadDirOrders(dsk) ==
  {o \in UNION {[1..n -> DOMAIN dsk] : n \in {Cardinality(DOMAIN dsk)}} :
     \A i, j \in DOMAIN o : i # j => o[i] # o[j]}

(* read_dir fails, the k-th entry of the iteration is an error, or the k-th
   file cannot be opened *)
QueryOutcomes(order) ==
  {[fault |-> "none", at |-> 0], [fault |-> "read_dir", at |-> 0]}
    \cup {[fault |-> f, at |-> k] : f \in {"entry", "open"}, k \in 1..Len(order)}

(* the records of one file that pass `if let Ok(log_str) = line`,
   `if let Ok(log) = from_str(..)` and the range test, the upper end of the
   range left out *)
query_file_exclusive_end(lines, start_time, end_time) ==
  SelectSeq(lines, LAMBDA l : /\ l.kind = "record"
                              /\ l.timestamp >= start_time
                              /\ l.timestamp < end_time)

(* the records of one file that pass `if let Ok(log_str) = line`,
   `if let Ok(log) = from_str(..)` and the range test *)
query_file(lines, start_time, end_time) ==
  SelectSeq(lines, LAMBDA l : /\ l.kind = "record"
                              /\ l.timestamp >= start_time
                              /\ l.timestamp <= end_time)

RECURSIVE query_scan(_, _, _, _, _, _, _)
(* the `for entry in read_dir(..)?` loop from its k-th iteration on, `logs`
   holding what was pushed so far *)
query_scan(dsk, order, k, logs, start_time, end_time, io) ==
  IF k > Len(order) THEN [result |-> "Ok", logs |-> logs]
  ELSE IF io.fault \in {"entry", "open"} /\ io.at = k
       THEN [result |-> "Err", logs |-> <<>>]
       ELSE query_scan(dsk, order, k + 1,
                       logs \o query_file(dsk[order[k]], start_time, end_time),
                       start_time, end_time, io)

query_logs(dsk, order, start_time, end_time, io) ==
  IF io.fault = "read_dir"
  THEN [result |-> "Err", logs |-> <<>>]
  ELSE query_scan(dsk, order, 1, <<>>, start_time, end_time, io)

InitQuery ==
  /\ state = AppState_new
  /\ log_rx = <<>>
  /\ pc = "query"
  /\ collected = 0
  /\ no_logs_count = 0
  /\ stream = <<>>
  /\ sent = 0
  /\ accepted = <<>>
  /\ storage = [current_file |-> 0, max_size |-> 0, current_size |-> 0, storage_tx |-> "None"]
  /\ disk \in Directories
  /\ clock = 0
  /\ rx_alive = FALSE
  /\ last = [op |-> "none"]
  /\ calls = 0
  /\ clean = FALSE
  /\ created = {}
  /\ terminal = TerminalFree

(* one call of query_logs *)
QueryLogs ==
  /\ pc = "query"
  /\ \E start_time \in Times, end_time \in Times, order \in ReadDirOrders(disk) :
       \E io \in QueryOutcomes(order) :
         LET r == query_logs(disk, order, start_time, end_time, io)
         IN last' = [op |-> "query_logs", start_time |-> start_time,
                     end_time |-> end_time, order |-> order, io |-> io,
                     result |-> r.result, logs |-> r.logs]
  /\ pc' = "queried"
  /\ UNCHANGED <<storage, disk, clock, rx_alive, calls, clean, created>>
  /\ UNCHANGED <<state, log_rx, collected, no_logs_count, stream, sent, accepted, terminal>>

NextQuery == QueryLogs

SpecQuery == InitQuery /\ [][NextQuery]_vars

----------------------------------------------------------------------------
(* run_interactive_mode from its first line to its return: Tui::new takes the
   terminal step by step, adb is spawned, Tui::run runs until q or until a
   terminal call fails, and the Tui is dropped when the function returns.
   Each call that can fail either succeeds or fails. *)

TuiNewSteps == <<"enable_raw_mode", "EnterAlternateScreen", "EnableMouseCapture", "Terminal::new">>

(* the terminal after the first n steps of Tui::new have succeeded *)
AcquiredAfter(n) ==
  [raw_mode |-> n >= 1, alternate_screen |-> n >= 2, mouse_capture |-> n >= 3]

(* Tui::new: the steps before `failed_at` succeed, that one returns its error
   through `?`; 0 stands for no failure *)
TuiNew ==
  /\ pc = "new"
  /\ \E failed_at \in 0..Len(TuiNewSteps) :
       IF failed_at = 0
       THEN terminal' = AcquiredAfter(Len(TuiNewSteps)) /\ pc' = "spawn"
       ELSE terminal' = AcquiredAfter(failed_at - 1) /\ pc' = "exited"
  /\ UNCHANGED <<state, log_rx, collected, no_logs_count, stream, sent, accepted>>
  /\ UNCHANGED storage_vars

(* Command::spawn and the capture of its stdout: on failure the function
   returns with the Tui alive *)
SpawnAdb ==
  /\ pc = "spawn"
  /\ \E ok \in BOOLEAN : pc' = IF ok THEN "warmup" ELSE "failed"
  /\ UNCHANGED <<state, log_rx, collected, no_logs_count, stream, sent, accepted>>
  /\ UNCHANGED <<storage_vars, terminal>>

(* a draw, poll or read of Tui::run fails and run returns the error *)
RunError ==
  /\ pc \in {"warmup", "drain", "poll"}
  /\ pc' = "failed"
  /\ UNCHANGED <<state, log_rx, collected, no_logs_count, stream, sent, accepted>>
  /\ UNCHANGED <<storage_vars, terminal>>

DropSteps == <<"disable_raw_mode", "LeaveAlternateScreen", "DisableMouseCapture">>

(* the terminal when the first n steps of drop have succeeded *)
ReleasedAfter(held, n) ==
  [raw_mode         |-> held.raw_mode /\ n < 1,
   alternate_screen |-> held.alternate_screen /\ n < 2,
   mouse_capture    |-> held.mouse_capture /\ n < 3]

(* run_interactive_mode returns and the Tui is dropped: the steps of drop
   before `failed_at` succeed, that one panics in unwrap; 0 stands for no
   failure *)
DropTui ==
  /\ pc \in {"done", "failed"}
  /\ \E failed_at \in 0..Len(DropSteps) :
       terminal' = ReleasedAfter(terminal, IF failed_at = 0 THEN Len(DropSteps)
                                           ELSE failed_at - 1)
  /\ pc' = "exited"
  /\ UNCHANGED <<state, log_rx, collected, no_logs_count, stream, sent, accepted>>
  /\ UNCHANGED storage_vars

InitTerm ==
  /\ state = AppState_new
  /\ log_rx = <<>>
  /\ pc = "new"
  /\ collected = 0
  /\ no_logs_count = 0
  /\ stream \in Streams
  /\ sent = 0
  /\ accepted = <<>>
  /\ StorageIdle
  /\ terminal = TerminalFree

NextTerm ==
  \/ TuiNew
  \/ SpawnAdb
  \/ ProducerSend
  \/ ChanControllerStep
  \/ RunError
  \/ DropTui

SpecTerm == InitTerm /\ [][NextTerm]_vars

----------------------------------------------------------------------------
(* Properties of the bounded store *)

(* ids of the entries received so far that add_log discarded *)
Dropped == (1..(sent - Len(log_rx))) \ Range(accepted)

(* C1: whatever the interleaving of appends with key and mouse events, the
   store never holds more than CAP entries. *)
C1_StoreBounded == Len(state.logs) <= CAP

C1_Witness ==
  /\ Len(state.logs) = CAP
  /\ Len(accepted) > CAP
  /\ state.search_query # <<>>
  /\ ~state.tail_mode

(* the store holds the last Len(logs) accepted entries, in arrival order *)
SuffixOfAccepted ==
  /\ Len(state.logs) <= Len(accepted)
  /\ accepted # <<>> => state.logs # <<>>
  /\ \A k \in 1..Len(state.logs) :
       state.logs[k].id = accepted[Len(accepted) - Len(state.logs) + k]

(* C2: the store is a contiguous suffix of the accepted entries ending with
   the newest; an accepted append at len = CAP drops exactly the EVICT oldest
   entries first, one at len < CAP drops nothing; once more than CAP entries
   have been accepted the store holds between CAP-EVICT+1 and CAP entries. *)
C2_SuffixAndBatchEviction ==
  [][ /\ SuffixOfAccepted'
      /\ accepted' # accepted =>
           /\ accepted' = Append(accepted, Last(state'.logs).id)
           /\ IF Len(state.logs) = CAP
              THEN SubSeq(state'.logs, 1, Len(state'.logs) - 1) =
                     SubSeq(state.logs, EVICT + 1, CAP)
              ELSE /\ Len(state.logs) < CAP
                   /\ SubSeq(state'.logs, 1, Len(state'.logs) - 1) = state.logs
      /\ Len(accepted') > CAP =>
           Len(state'.logs) \in (CAP - EVICT + 1)..CAP ]_vars

C2_Witness ==
  /\ Len(accepted) = CAP + 2
  /\ Len(state.logs) = CAP - EVICT + 2
  /\ state.logs[1].id = accepted[EVICT + 1]
  /\ Last(state.logs).id = Last(accepted)

----------------------------------------------------------------------------
(* Properties of the filtered index *)

(* a and b are the same character or the two cases of one letter *)
SameLetter(a, b) ==
  \/ a = b
  \/ \E n \in 1..26 : {a, b} = {UpperLetters[n], LowerLetters[n]}

(* s occurs in text, case ignored *)
OccursIgnoringCase(s, text) ==
  \E k \in 0..(Len(text) - Len(s)) :
    \A j \in 1..Len(s) : SameLetter(text[k + j], s[j])

(* the filter predicate as the specification states it, for store position i *)
Matches(i) ==
  LET log == state.logs[i + 1]
      s   == state.search_query
  IN /\ log.level \in Range(state.level_filters)
     /\ \/ s = <<>>
        \/ OccursIgnoringCase(s, log.message)
        \/ OccursIgnoringCase(s, log.tag)
        \/ OccursIgnoringCase(s, as_str(log.level))

(* C3: after a recompute the filtered index holds position i iff entry i has
   an enabled level and the search text is empty or occurs, case ignored, in
   its message, tag or level name; its length is the number of such entries. *)
C3_FilterCorrect ==
  pc = "recomputed" =>
    /\ \A i \in 0..(Len(state.logs) - 1) :
         (i \in Range(state.filtered_logs)) <=> Matches(i)
    /\ \A k \in 1..Len(state.filtered_logs) :
         state.filtered_logs[k] \in 0..(Len(state.logs) - 1)
    /\ Len(state.filtered_logs) =
         Cardinality({i \in 0..(Len(state.logs) - 1) : Matches(i)})

(* all levels but Error toggled off over 3 Error and 5 other entries *)
C3_Witness ==
  /\ pc = "recomputed"
  /\ state.logs = ScenarioStore
  /\ state.level_filters = <<"Error">>
  /\ state.search_query = <<"K">>
  /\ state.filtered_logs = <<1, 4, 7>>

(* C4: the filtered index is strictly increasing and every position in it is
   below the store length, also right after an eviction. *)
C4_IndexIncreasingAndValid ==
  /\ \A k \in 1..Len(state.filtered_logs) :
       state.filtered_logs[k] \in 0..(Len(state.logs) - 1)
  /\ \A j, k \in 1..Len(state.filtered_logs) :
       j < k => state.filtered_logs[j] < state.filtered_logs[k]

C4_Witness ==
  /\ Len(accepted) = CAP + 1
  /\ Len(state.logs) = CAP - EVICT + 1
  /\ state.filtered_logs = <<0>>
  /\ state.logs[1].level = "Info"
  /\ state.search_query = <<"e", "K">>

(* C5: the filtered index is never out of date: in every state between two
   controller actions a recompute over the current store, level set and
   search text would leave it as it is. *)
C5_IndexFresh ==
  state.filtered_logs = update_filtered_logs(state).filtered_logs

C5_Witness ==
  /\ state.search_mode
  /\ state.search_query = <<"K">>
  /\ state.level_filters # InitialLevelFilters
  /\ Len(state.logs) = CAP
  /\ Len(state.filtered_logs) = 1
  /\ Len(accepted) > CAP

(* C6: with tail on, an accepted append, a level toggle and a change of the
   search text all leave scroll on the last filtered position (0 if none). *)
C6_TailPin ==
  [][ ( /\ state'.tail_mode
        /\ \/ accepted' # accepted
           \/ state'.level_filters # state.level_filters
           \/ state'.search_query # state.search_query )
      => state'.scroll = SatSub(Len(state'.filtered_logs), 1) ]_vars

C6_Witness ==
  /\ state.tail_mode
  /\ state.scroll = 1
  /\ Len(state.filtered_logs) = 2
  /\ Len(state.logs) = CAP
  /\ state.search_query # <<>>
  /\ pc = "drain"

(* C7: while paused, a received entry is taken off the channel and dropped:
   store, filtered index and statistics stay as they are, the drain loop is
   left only with the channel empty, and no dropped entry is ever in the
   store, also after unpausing. *)
C7_PausedDiscards ==
  [][ /\ (state.paused /\ log_rx # <<>> /\ log_rx' = Tail(log_rx)) =>
           /\ state'.logs = state.logs
           /\ state'.filtered_logs = state.filtered_logs
           /\ state'.stats = state.stats
           /\ accepted' = accepted
      /\ (pc = "drain" /\ pc' # "drain") => log_rx = <<>>
      /\ \A k \in 1..Len(state'.logs) : state'.logs[k].id \notin Dropped' ]_vars

C7_Witness ==
  /\ ~state.paused
  /\ \E d \in Dropped : \E k \in 1..Len(state.logs) : state.logs[k].id > d
  /\ \E d \in Dropped : \E k \in 1..Len(state.logs) : state.logs[k].id < d

----------------------------------------------------------------------------
(* Properties of the channel *)

(* number of entries the controller has received *)
Received == sent - Len(log_rx)

(* C8: the channel holds exactly the entries sent and not yet received, in
   the order sent; a receive takes the oldest one, which add_log appends to
   the store unless paused is set at that moment; and every entry sent is
   received after finitely many steps unless the loop has ended first. *)
C8_ChannelDelivers ==
  /\ [][ /\ \A k \in 1..Len(log_rx') : log_rx'[k].id = Received' + k
         /\ Received' \in {Received, Received + 1}
         /\ Received' = Received + 1 =>
              /\ log_rx # <<>>
              /\ IF state.paused
                 THEN state'.logs = state.logs
                 ELSE /\ Last(state'.logs) = Head(log_rx)
                      /\ Last(state'.logs).id = Received'
                      /\ accepted' = Append(accepted, Received') ]_vars
  /\ \A n \in 1..MaxLines : (sent >= n) ~> (Received >= n \/ pc = "done")

C8_Witness ==
  /\ sent = MaxLines
  /\ Received = MaxLines
  /\ Len(accepted) = MaxLines - 1
  /\ pc = "poll"
  /\ state.paused

(* C9: every iteration of the main loop gets from the drain of the log channel
   to the redraw and the input poll after finitely many steps, whatever the
   ingestion thread sends. *)
C9_LoopReachesPoll == (pc = "drain") ~> (pc = "poll")

----------------------------------------------------------------------------
(* Properties of the rotator *)

(* the counter of the call just made, after the record was added *)
CounterAfterAdd == storage.current_size + last'.len

(* C10 as stated: a store call rotates exactly when its counter, after the
   record is added, is at or above max_size * 1MB; the rotation happens once
   and resets the counter to 0; a call that stays below rotates nothing. *)
C10_RotatesExactlyAtThreshold ==
  [][ (calls' = calls + 1 /\ last'.counted) =>
        /\ last'.rotations = 1 <=> CounterAfterAdd >= storage.max_size * 1024 * 1024
        /\ last'.rotations \in {0, 1}
        /\ last'.rotations = 1 => storage'.current_size = 0
        /\ last'.rotations = 0 => storage'.current_size = CounterAfterAdd ]_vars

(* C10 amended: the same, unless the new file cannot be opened: then the call
   returns the error with the counter left at or above the threshold and the
   current file kept, so that the next call tries the rotation again.  A call
   whose write fails adds nothing to the counter and rotates nothing. *)
C10_RotatesAtThresholdUnlessOpenFails ==
  [][ calls' = calls + 1 =>
        IF ~last'.counted
        THEN last'.rotations = 0 /\ storage' = storage
        ELSE IF CounterAfterAdd < storage.max_size * 1024 * 1024
        THEN /\ last'.rotations = 0
             /\ storage' = [storage EXCEPT !.current_size = CounterAfterAdd]
        ELSE IF last'.io.fault = "open"
        THEN /\ last'.rotations = 0
             /\ last'.result = "Err"
             /\ storage' = [storage EXCEPT !.current_size = CounterAfterAdd]
        ELSE /\ last'.rotations = 1
             /\ storage'.current_size = 0 ]_vars

(* a rotation at the exact threshold, in the call after a failed one *)
C10_Witness ==
  /\ last.op = "store_log"
  /\ last.rotations = 1
  /\ last.len = 400000
  /\ storage.max_size = 1
  /\ storage.current_size = 0
  /\ calls = 3
  /\ disk[0] = 1048576 + 400000 + 2

(* the rotation threshold in bytes *)
Threshold == storage.max_size * 1024 * 1024

(* the largest record a store call is given, with its newline *)
LargestRecord == (CHOOSE m \in RecordSizes : \A x \in RecordSizes : x <= m) + 1

(* C11 as stated, for the calls that meet no error: at every rotation of a
   file that was empty when the rotator opened it, the bytes on disk of the
   file being closed are at most the threshold plus one record; the record is
   taken as the largest one stored, newline included, which is the weakest
   reading of the bound. *)
C11_ClosedFileWithinBound ==
  [][ (calls' = calls + 1 /\ last'.rotations = 1 /\ clean /\ last'.io.fault = "none") =>
        last'.closed.size <= Threshold + LargestRecord ]_vars

(* C12 as stated: the path a rotation opens differs from the path of the file
   it closes and from every file this rotator opened before. *)
C12_RotationOpensNewFile ==
  [][ (calls' = calls + 1 /\ last'.rotations = 1) =>
        /\ last'.opened.file # last'.closed.file
        /\ last'.opened.file \notin created ]_vars

(* C13 as stated: every entry the ingestion thread forwards to the controller
   is also handed to store_log. *)
C13_ForwardedEntriesStored ==
  [][ sent' = sent + 1 => calls' = calls + 1 ]_vars

(* C17 as stated: the current-file field of every snapshot a store call emits
   is the path of the file the rotator has open. *)
C17_SnapshotNamesOpenFile ==
  [][ calls' = calls + 1 =>
        \A k \in 1..Len(last'.updates) :
          last'.updates[k].current_file = generate_filename(storage'.current_file) ]_vars

(* C18: store_log returns an error when a write of the record fails and when
   the open of the rotation file fails; a receiver that is gone changes
   nothing in what it returns: the snapshot is dropped and the call that
   meets no filesystem error returns Ok. *)
C18_ErrorsPropagateSendIgnored ==
  [][ calls' = calls + 1 =>
        /\ last'.io.fault \in {"write_record", "write_newline"} => last'.result = "Err"
        /\ (last'.io.fault = "open" /\ CounterAfterAdd >= Threshold) => last'.result = "Err"
        /\ last'.io.fault = "none" => last'.result = "Ok"
        /\ last'.result = store_log(storage, disk, clock, last'.len, last'.io, TRUE).result
        /\ ~rx_alive => last'.delivered = <<>> ]_vars

(* a store call with a rotation, both snapshots sent to a receiver that is
   gone, returning Ok *)
C18_Witness ==
  /\ last.op = "store_log"
  /\ ~rx_alive
  /\ storage.storage_tx = "Some"
  /\ Len(last.updates) = 2
  /\ last.delivered = <<>>
  /\ last.rotations = 1
  /\ last.result = "Ok"

----------------------------------------------------------------------------
(* Properties of the parser *)

(* the raw line parsed and the entry made of it *)
RawLine == stream[1]

Parsed == Head(log_rx)

(* C14 as stated: the threadtime line parses to level Error, the tag is the
   last-but-one whitespace token of the text before the tag's colon (E, the
   token before MyTag) and the message is the text after the tag's colon. *)
C14_ThreadtimeLineParsed ==
  (pc = "parsed" /\ RawLine = ThreadtimeLine) =>
    /\ Parsed.level = "Error"
    /\ Parsed.tag = <<"E">>
    /\ Parsed.message = <<"S", "o", "m", "e", "t", "h", "i", "n", "g", " ", "b", "r", "o", "k", "e">>

(* the whitespace tokens of the text before the first ':' of the line *)
HeaderTokens == split_whitespace(splitn2(RawLine)[1])

(* C15 as stated: the timestamp is the first two header tokens joined by one
   space when the header has two tokens or more and the local time otherwise;
   the tag is the second-to-last header token, and UNKNOWN when the header
   has no second-to-last token. *)
C15_TimestampAndTag ==
  pc = "parsed" =>
    /\ Parsed.timestamp = IF Len(HeaderTokens) >= 2
                          THEN HeaderTokens[1] \o <<" ">> \o HeaderTokens[2]
                          ELSE LocalNow
    /\ Parsed.tag = IF Len(HeaderTokens) >= 2
                    THEN HeaderTokens[Len(HeaderTokens) - 1]
                    ELSE UNKNOWN

LevelOrder == <<"Error", "Warning", "Info", "Debug", "Verbose">>

(* the marker substrings of a level: its letter between two spaces, its name *)
LevelMarkers ==
  [ Error   |-> {<<" ", "E", " ">>, <<"E", "r", "r", "o", "r">>},
    Warning |-> {<<" ", "W", " ">>, <<"W", "a", "r", "n", "i", "n", "g">>},
    Info    |-> {<<" ", "I", " ">>, <<"I", "n", "f", "o">>},
    Debug   |-> {<<" ", "D", " ">>, <<"D", "e", "b", "u", "g">>},
    Verbose |-> {<<" ", "V", " ">>, <<"V", "e", "r", "b", "o", "s", "e">>} ]

(* pat occurs in text, character for character *)
Occurs(pat, text) ==
  \E k \in 0..(Len(text) - Len(pat)) : \A j \in 1..Len(pat) : text[k + j] = pat[j]

(* the places in LevelOrder of the levels with a marker in the raw line *)
LevelsMarked ==
  {n \in 1..Len(LevelOrder) : \E pat \in LevelMarkers[LevelOrder[n]] : Occurs(pat, RawLine)}

(* C16: the level is the first one in the order Error, Warning, Info, Debug,
   Verbose that has a marker anywhere in the raw line, and Unknown when the
   line has no marker. *)
C16_LevelByPriority ==
  pc = "parsed" =>
    Parsed.level = IF LevelsMarked = {} THEN "Unknown"
                   ELSE LevelOrder[CHOOSE n \in LevelsMarked : \A m \in LevelsMarked : n <= m]

(* " V Warning E ": markers of three levels, the Error one last in the line *)
C16_Witness ==
  /\ pc = "parsed"
  /\ RawLine = <<" ", "V", " ", "W", "a", "r", "n", "i", "n", "g", " ", "E", " ">>
  /\ LevelsMarked = {1, 2, 5}
  /\ Parsed.level = "Error"

----------------------------------------------------------------------------
(* Properties of the key and mouse handlers *)

(* the state after each scroll movement the controller can receive in Normal
   mode: the four keys and the two directions of the wheel *)
AfterMovement ==
  {on_normal_key(state, key) : key \in {"Up", "Down", "PageUp", "PageDown"}}
    \cup {on_mouse(state, kind) : kind \in {"ScrollUp", "ScrollDown"}}

(* C19 as stated: in Normal mode, after an Up, Down, PageUp, PageDown or
   wheel event tail is true if the resulting scroll is the last filtered
   index and false otherwise. *)
C19_MovementSetsTail ==
  (pc = "poll" /\ ~state.search_mode) =>
    \A st \in AfterMovement :
      st.tail_mode = (st.scroll = SatSub(Len(st.filtered_logs), 1))

(* the store positions whose level is enabled, in order *)
LevelOnlyIndex(st) ==
  SelectSeq([k \in 1..Len(st.logs) |-> k - 1],
            LAMBDA i : st.logs[i + 1].level \in Range(st.level_filters))

(* C20: in Search mode Esc empties the search text, leaves the index of the
   level set alone and returns to Normal mode; Enter returns to Normal mode
   with the search text and the filtered index as they were; nothing in
   Normal mode changes the text, '/' included, so it is there when Search
   mode is entered again. *)
C20_EscClearsEnterKeeps ==
  /\ [](( pc = "poll" /\ state.search_mode) =>
          LET esc   == on_search_key(state, "Esc")
              enter == on_search_key(state, "Enter")
              again == on_normal_key(enter, "/")
          IN /\ esc.search_query = <<>>
             /\ ~esc.search_mode
             /\ esc.filtered_logs = LevelOnlyIndex(esc)
             /\ ~enter.search_mode
             /\ enter.search_query = state.search_query
             /\ enter.filtered_logs = state.filtered_logs
             /\ again.search_mode
             /\ again.search_query = state.search_query
             /\ again.filtered_logs = state.filtered_logs)
  /\ [][ ~state.search_mode => state'.search_query = state.search_query ]_vars

(* Normal mode after an Enter: the text typed in Search mode is in place and
   still narrows the index of the level set *)
C20_Witness ==
  /\ ~state.search_mode
  /\ pc = "drain"
  /\ state.search_query = <<"e", "K">>
  /\ Len(state.logs) = CAP
  /\ Len(state.filtered_logs) = 1
  /\ Len(LevelOnlyIndex(state)) = 2

----------------------------------------------------------------------------
(* Properties of the warm-up phase and of the loop *)

(* C21: the warm-up receives at most INITIAL_BATCH_SIZE entries; it goes on
   only while fewer than that were received and fewer than MAX_WAIT_CYCLES
   polls in a row found the channel empty (a receive starts the count of
   empty polls again), it is left as soon as one of the two is reached, and
   it is left after finitely many steps whatever the thread sends. *)
C21_WarmupBounded ==
  /\ [](collected <= INITIAL_BATCH_SIZE /\ no_logs_count <= MAX_WAIT_CYCLES)
  /\ [][ /\ (pc = "warmup" /\ pc' # "warmup") =>
              (collected = INITIAL_BATCH_SIZE \/ no_logs_count = MAX_WAIT_CYCLES)
         /\ ( /\ pc = "warmup"
              /\ (collected = INITIAL_BATCH_SIZE \/ no_logs_count = MAX_WAIT_CYCLES) ) =>
              (collected' = collected /\ no_logs_count' = no_logs_count /\ state'.logs = state.logs)
         /\ collected' # collected =>
              (pc = "warmup" /\ collected' = collected + 1 /\ no_logs_count' = 0)
         /\ no_logs_count' \notin {no_logs_count, 0} =>
              (pc = "warmup" /\ log_rx = <<>> /\ no_logs_count' = no_logs_count + 1) ]_vars
  /\ (pc = "warmup") ~> (pc # "warmup")

(* the warm-up left with the full batch received, the last entry after a
   run of empty polls *)
C21_Witness ==
  /\ pc = "drain"
  /\ collected = INITIAL_BATCH_SIZE
  /\ no_logs_count = 0
  /\ Len(log_rx) = MaxQueue

(* the ingestion thread has sent its last line and ended, and the channel
   holds nothing more: every later try_recv fails *)
ChannelDry == sent = Len(stream) /\ log_rx = <<>>

(* C22: once the ingestion thread has ended and the channel is drained, the
   controller keeps running: a failed receive leaves the store and its
   counters alone and only moves the loop on to event::poll, where every key
   is still taken; the loop ends only by q pressed in Normal mode. *)
C22_RunsOnAfterThreadEnd ==
  /\ []( (ChannelDry /\ pc # "done") => ENABLED Next )
  /\ []( (ChannelDry /\ pc = "poll") => ENABLED KeyEvent )
  /\ [][ ChannelDry =>
           /\ state'.logs = state.logs
           /\ state'.stats = state.stats
           /\ accepted' = accepted
           /\ log_rx' = <<>>
           /\ pc = "drain" => (pc' = "poll" /\ state' = state)
           /\ pc' = "done" => (pc = "poll" /\ ~state.search_mode /\ state' = state) ]_vars

(* the thread has ended, everything it sent was taken, and the loop stands at
   event::poll in Search mode with text typed *)
C22_Witness ==
  /\ ChannelDry
  /\ Len(accepted) = MaxLines
  /\ pc = "poll"
  /\ state.search_mode
  /\ state.search_query = <<"e">>

----------------------------------------------------------------------------
(* Properties of query_logs *)

(* the lines of the directory that hold a record with timestamp t *)
RecordsAt(t) ==
  {p \in (DOMAIN disk) \X (1..MaxFileLines) :
     /\ p[2] <= Len(disk[p[1]])
     /\ disk[p[1]][p[2]] = [kind |-> "record", timestamp |-> t]}

(* the positions of the result that hold a record with timestamp t *)
ReturnedAt(t) == {k \in 1..Len(last.logs) : last.logs[k].timestamp = t}

(* C23: a query whose filesystem calls all succeed returns Ok with, for every
   timestamp t, as many records as the files of the directory hold lines with
   a record of timestamp t if start_time <= t <= end_time and none otherwise,
   and nothing but records; a query in which read_dir, an entry of the
   iteration or an open fails returns an error and no records. *)
C23_QueryExact ==
  pc = "queried" =>
    IF last.io.fault = "none"
    THEN /\ last.result = "Ok"
         /\ \A k \in 1..Len(last.logs) : last.logs[k].kind = "record"
         /\ \A t \in Times :
              Cardinality(ReturnedAt(t)) =
                IF last.start_time <= t /\ t <= last.end_time
                THEN Cardinality(RecordsAt(t)) ELSE 0
    ELSE last.result = "Err" /\ last.logs = <<>>

(* a query over two files that hold records before, at both ends of and
   after the range, next to a line that does not deserialize: the two at the
   ends are returned *)
C23_Witness ==
  /\ pc = "queried"
  /\ last.result = "Ok"
  /\ last.start_time = 1 /\ last.end_time = 2
  /\ DOMAIN disk = QueryFiles
  /\ RecordsAt(0) # {} /\ RecordsAt(1) # {} /\ RecordsAt(2) # {}
  /\ \E f \in DOMAIN disk : \E k \in 1..Len(disk[f]) : disk[f][k].kind = "malformed"
  /\ Len(last.logs) = 2
  /\ last.logs[1].timestamp # last.logs[2].timestamp

----------------------------------------------------------------------------
(* Properties of the terminal *)

(* C24: when run_interactive_mode has returned, whichever way (q, an error
   of the run loop, a failed start of adb, a failed step of Tui::new),
   nothing of the terminal is held any more: raw mode is off, the alternate
   screen is left and mouse capture is off. *)
C24_TerminalReleased == pc = "exited" => terminal = TerminalFree

----------------------------------------------------------------------------
(* Properties of the level keys *)

(* C25: in Normal mode each of e, w, i, d, v flips the membership of its
   level in the enabled set and recomputes the filtered index for the new
   set; the same key pressed twice gives back the enabled set and the
   filtered index; the enabled levels never hold a level twice; and the only
   enabled level can be toggled off, which leaves no level enabled and an
   empty filtered index. *)
C25_ToggleTwiceRestores ==
  /\ \A j, k \in 1..Len(state.level_filters) :
       j # k => state.level_filters[j] # state.level_filters[k]
  /\ ~state.search_mode =>
       \A key \in LevelKeys :
         LET level   == LevelOfKey(key)
             enabled == Range(state.level_filters)
             once    == on_normal_key(state, key)
             twice   == on_normal_key(once, key)
         IN /\ Range(once.level_filters) =
                 IF level \in enabled THEN enabled \ {level} ELSE enabled \cup {level}
            /\ once.filtered_logs = LevelOnlyIndex(once)
            /\ Range(twice.level_filters) = enabled
            /\ twice.filtered_logs = state.filtered_logs
            /\ enabled = {level} =>
                 (once.level_filters = <<>> /\ once.filtered_logs = <<>>)

(* the last enabled level has been toggled off over a full store: no level
   is enabled and the filtered index is empty *)
C25_Witness ==
  /\ pc = "drain"
  /\ state.level_filters = <<>>
  /\ state.filtered_logs = <<>>
  /\ Len(state.logs) = CAP

----------------------------------------------------------------------------
(* Properties of tail and scroll under user events *)

(* the Normal-mode keys that are neither t nor a scroll movement *)
NoScrollKeys == LevelKeys \cup {"1", "2", "3", "/", " ", "n"}

(* the Search-mode keys: characters, Backspace, Esc, Enter *)
SearchEditKeys == {"e", "q", "t", "K", " ", "Backspace", "Esc", "Enter"}

(* C26: at event::poll, a level key or any other Normal-mode key that is
   neither t nor a scroll movement leaves the tail flag as it is, and so
   does every Search-mode key (a character, Backspace, Esc, Enter); an
   upward scroll (Up, PageUp in Normal mode, wheel-up) leaves the tail flag
   false. *)
C26_TailFrame ==
  pc = "poll" =>
    /\ ~state.search_mode =>
         /\ \A key \in NoScrollKeys :
              on_normal_key(state, key).tail_mode = state.tail_mode
         /\ ~on_normal_key(state, "Up").tail_mode
         /\ ~on_normal_key(state, "PageUp").tail_mode
    /\ state.search_mode =>
         \A key \in SearchEditKeys :
           on_search_key(state, key).tail_mode = state.tail_mode
    /\ ~on_mouse(state, "ScrollUp").tail_mode

(* the store positions that the filter predicate of the specification
   selects for the level set and search text of st, in order *)
MatchingIndex(st) ==
  SelectSeq(LevelOnlyIndex(st),
            LAMBDA i : \/ st.search_query = <<>>
                       \/ OccursIgnoringCase(st.search_query, st.logs[i + 1].message)
                       \/ OccursIgnoringCase(st.search_query, st.logs[i + 1].tag)
                       \/ OccursIgnoringCase(st.search_query, as_str(st.logs[i + 1].level)))

(* the character keys that have a meaning in Normal mode, and one more *)
TypedChars == {"q", " ", "t", "1", "2", "3", "e", "w", "i", "d", "v", "/", "K"}

(* st differs from the current state at most in search text, filtered index
   and scroll *)
OnlyTextEdited(st) ==
  /\ st.search_mode
  /\ st.current_view = state.current_view
  /\ st.paused = state.paused
  /\ st.tail_mode = state.tail_mode
  /\ st.level_filters = state.level_filters
  /\ st.logs = state.logs
  /\ st.stats = state.stats
  /\ st.notify_on_error = state.notify_on_error
  /\ st.filtered_logs = MatchingIndex(st)

(* C27: in Search mode at event::poll every character key, among them q,
   space, t, 1, 2, 3, e, w, i, d, v, only appends itself to the search text
   and recomputes the filtered index: mode, view, paused, tail and the
   enabled levels stay as they are; Backspace removes exactly the last
   character and recomputes, and changes nothing on an empty text; and no
   step taken in Search mode ends the loop. *)
C27_SearchKeysOnlyEditText ==
  /\ []( (pc = "poll" /\ state.search_mode) =>
           /\ \A c \in TypedChars :
                LET st == on_search_key(state, c)
                IN /\ st.search_query = Append(state.search_query, c)
                   /\ OnlyTextEdited(st)
           /\ LET st == on_search_key(state, "Backspace")
              IN IF state.search_query = <<>>
                 THEN st = state
                 ELSE /\ st.search_query =
                           SubSeq(state.search_query, 1, Len(state.search_query) - 1)
                      /\ OnlyTextEdited(st) )
  /\ [][ state.search_mode => pc' # "done" ]_vars

(* q and space have been typed in Search mode over a full store: they are
   the search text, the loop runs on, ingestion is not paused and the view
   has not changed *)
C27_Witness ==
  /\ pc = "drain"
  /\ state.search_mode
  /\ state.search_query = <<"q", " ">>
  /\ ~state.paused
  /\ state.tail_mode
  /\ state.current_view = "Stats"
  /\ Len(state.logs) = CAP
  /\ state.filtered_logs = <<>>

(* C28: while the main loop runs, scroll is a position of the filtered
   index, or 0 when the index is empty, whatever shrank the index. *)
C28_ScrollValid ==
  pc \in {"drain", "poll"} =>
    state.scroll <= SatSub(Len(state.filtered_logs), 1)

(* C29: after every key or mouse event that changed the state, tail on
   means that scroll is the last position of the filtered index (0 when it
   is empty); and End applied at event::poll in Normal mode leaves tail on
   with scroll on the last position. *)
C29_TailMeansLast ==
  /\ [][ (pc = "poll" /\ pc' = "drain" /\ state' # state) =>
           (state'.tail_mode =>
              state'.scroll = SatSub(Len(state'.filtered_logs), 1)) ]_vars
  /\ []( (pc = "poll" /\ ~state.search_mode) =>
           LET st == on_normal_key(state, "End")
           IN st.scroll = SatSub(Len(st.filtered_logs), 1) /\ st.tail_mode )

(* every Normal-mode key of the key match *)
AllNormalKeys ==
  LevelKeys \cup {"1", "2", "3", "/", " ", "t", "Up", "Down", "End", "G", "Home", "g",
                  "PageUp", "PageDown", "n", "y", "c"}

(* C30: the enabled levels never hold Unknown, and no Normal-mode key adds
   it; an entry of level Unknown, though held in the store, is at no
   position of the filtered index. *)
C30_UnknownNeverShown ==
  /\ "Unknown" \notin Range(state.level_filters)
  /\ \A key \in AllNormalKeys :
       "Unknown" \notin Range(on_normal_key(state, key).level_filters)
  /\ \A k \in 1..Len(state.filtered_logs) :
       /\ state.filtered_logs[k] < Len(state.logs)
       /\ state.logs[state.filtered_logs[k] + 1].level # "Unknown"

(* a full store with an entry of level Unknown in it, every level toggled
   off and on again: all entries but that one are in the filtered index *)
C30_Witness ==
  /\ Len(state.logs) = CAP
  /\ \E k \in 1..CAP : state.logs[k].level = "Unknown"
  /\ Range(state.level_filters) = LogLevels \ {"Unknown"}
  /\ state.level_filters # InitialLevelFilters
  /\ Len(state.filtered_logs) =
       Cardinality({k \in 1..CAP : state.logs[k].level # "Unknown"})
  /\ state.filtered_logs # <<>>

----------------------------------------------------------------------------
(* Properties of the statistics *)

(* the counter of a level *)
CounterOf(stats, level) ==
  CASE level = "Error"   -> stats.error_count
    [] level = "Warning" -> stats.warning_count
    [] level = "Info"    -> stats.info_count
    [] level = "Debug"   -> stats.debug_count
    [] level = "Verbose" -> stats.verbose_count

CountedLevels == LogLevels \ {"Unknown"}

(* the number of entries of a level that add_log appended since start *)
AcceptedOf(level) ==
  Cardinality({k \in 1..Len(accepted) : stream[accepted[k]].level = level})

(* the number of entries of a level now in the store *)
StoredOf(level) ==
  Cardinality({k \in 1..Len(state.logs) : state.logs[k].level = level})

(* C31: each counter equals the number of entries of its level appended
   since start, hence is at least the number of them now in the store; no
   step makes a counter smaller; and the counters add up to the appended
   entries that are not of level Unknown, which are stored all the same. *)
C31_StatsCountAccepted ==
  /\ []( \A level \in CountedLevels :
           /\ CounterOf(state.stats, level) = AcceptedOf(level)
           /\ CounterOf(state.stats, level) >= StoredOf(level) )
  /\ [][ /\ \A level \in CountedLevels :
              CounterOf(state'.stats, level) >= CounterOf(state.stats, level)
         /\ ( /\ accepted' # accepted
              /\ stream[Last(accepted')].level = "Unknown" ) =>
              /\ state'.stats = state.stats
              /\ Last(state'.logs).level = "Unknown"
              /\ Last(state'.logs).id = Last(accepted') ]_vars

(* every line was appended, the store was evicted once and holds an entry
   of level Unknown, and the Error counter is above the number of Error
   entries left in the store *)
C31_Witness ==
  /\ Len(accepted) = MaxLines
  /\ Len(state.logs) < MaxLines
  /\ StoredOf("Unknown") > 0
  /\ state.stats.error_count > StoredOf("Error")
  /\ state.stats.error_count + state.stats.info_count + AcceptedOf("Unknown") = MaxLines

----------------------------------------------------------------------------
(* Properties of a failed store *)

(* C32: a store_log call that returns an error leaves the rotator and the
   directory as they were before the call: no byte was added to any file,
   current_size is the same and so is the current file. *)
C32_FailedStoreChangesNothing ==
  [][ (calls' = calls + 1 /\ last'.result = "Err") =>
        (storage' = storage /\ disk' = disk) ]_vars

----------------------------------------------------------------------------
(* Properties of the view keys *)

Views == {"Logs", "Stats", "Storage"}

(* st shown in view v *)
InView(st, v) == [st EXCEPT !.current_view = v]

(* the entries that may arrive *)
ArrivingEntries ==
  {[level |-> EntryKinds[n].level, tag |-> EntryKinds[n].tag,
    message |-> EntryKinds[n].message, id |-> 0] : n \in 1..Len(EntryKinds)}

(* C33: in Normal mode at event::poll the keys 1, 2, 3 give the same state
   with view Logs, Stats, Storage; space gives the same state with paused
   flipped; '/' gives the same state in Search mode.  No step changes the
   view, the pause flag, or the mode from Normal to Search, and anything
   else with it.  And what an arriving entry, every other Normal-mode key,
   every Search-mode key and the mouse wheel do to a state is the same in
   each of the three views. *)
C33_ViewKeysFrame ==
  /\ []( (pc = "poll" /\ ~state.search_mode) =>
           /\ on_normal_key(state, "1") = InView(state, "Logs")
           /\ on_normal_key(state, "2") = InView(state, "Stats")
           /\ on_normal_key(state, "3") = InView(state, "Storage")
           /\ on_normal_key(state, " ") = [state EXCEPT !.paused = ~state.paused]
           /\ on_normal_key(state, "/") = [state EXCEPT !.search_mode = TRUE] )
  /\ [][ /\ state'.current_view # state.current_view =>
              (pc = "poll" /\ ~state.search_mode
                 /\ state' = InView(state, state'.current_view))
         /\ state'.paused # state.paused =>
              (pc = "poll" /\ ~state.search_mode
                 /\ state' = [state EXCEPT !.paused = ~state.paused])
         /\ (~state.search_mode /\ state'.search_mode) =>
              (pc = "poll" /\ state' = [state EXCEPT !.search_mode = TRUE]) ]_vars
  /\ []( \A v \in Views :
           /\ \A entry \in ArrivingEntries :
                add_log(InView(state, v), entry) = InView(add_log(state, entry), v)
           /\ update_filtered_logs(InView(state, v)) = InView(update_filtered_logs(state), v)
           /\ \A key \in AllNormalKeys \ {"1", "2", "3"} :
                on_normal_key(InView(state, v), key) = InView(on_normal_key(state, key), v)
           /\ \A key \in SearchEditKeys :
                on_search_key(InView(state, v), key) = InView(on_search_key(state, key), v)
           /\ \A kind \in MouseKinds :
                on_mouse(InView(state, v), kind) = InView(on_mouse(state, kind), v) )

(* the Storage view is shown, ingestion is paused, Search mode is on with a
   text typed, tail is off and the store is full *)
C33_Witness ==
  /\ pc = "drain"
  /\ state.current_view = "Storage"
  /\ state.paused
  /\ state.search_mode
  /\ state.search_query = <<"e">>
  /\ ~state.tail_mode
  /\ Len(state.logs) = CAP

====
